---------------------------- MODULE Spec2Model ----------------------------
(***************************************************************************)
(* Model of the forest-fire notebook src/ndai_high_code_demo.ipynb: the    *)
(* data preparation cells (drop_duplicates, drop, get_dummies,             *)
(* train_test_split, Imputer, dropna, outlier_removal, StandardScaler,     *)
(* add_did_it_rain), the linear model cells and the random-forest grid     *)
(* search.  Data frames are objects on a heap, so that the in-place cells  *)
(* and the cells that build a new frame can be told apart.                 *)
(*                                                                         *)
(* Numbers are exact: a numeric cell is (n/d) / sqrt(vn/vd), which is a    *)
(* plain rational when vn/vd = 1 and a z-score once StandardScaler has     *)
(* divided it by its scale_ = sqrt(var_).                                  *)
(***************************************************************************)
EXTENDS Integers, Sequences, FiniteSets, TLC

VARIABLES
    pc,          \* the next cell (statement) of the notebook to execute
    run,         \* how many times the notebook has been started in this kernel
    csv,         \* the content of data_path, read by pd.read_csv
    heap,        \* the data frames alive in the kernel, by object id
    df, df_train, df_test,            \* names bound to frames (0: unbound)
    X_train, y_train, X_test, y_test, \* feature frames (ids) and target vectors
    imp,         \* the Imputer object
    normalizer,  \* the StandardScaler object
    model,       \* the LinearRegression object
    rf_final_model, \* the final RandomForestRegressor object
    predictions, score, \* what the last predict / score call was given
    results,     \* the grid search dictionary
    gridPos,     \* position of the nested loop in tree_grid x depth_grid
    npGlobalRng, \* state of numpy's global RandomState
    call,        \* the last preprocessing call: its name, argument and result
    hist         \* history: values the claims compare later states with

vars == <<pc, run, csv, heap, df, df_train, df_test, X_train, y_train, X_test,
          y_test, imp, normalizer, model, rf_final_model, predictions, score,
          results, gridPos, npGlobalRng, call, hist>>

---------------------------------------------------------------------------
(* Bounds of the model *)

\* the csv file has at most MaxRows rows
MaxRows == 3
\* the notebook is started at most MaxRuns times in the same kernel
MaxRuns == 2
\* states of the abstract pseudo random generator
RngModulus == 4
\* besides, csv files of LongRows rows with two missing DC values
LongRows == 6
\* the grid search is explored on csv files of 1..SweepMaxRows rows
SweepMaxRows == 8

---------------------------------------------------------------------------
(* Program constants *)

\* test_size = 0.2, as the fraction TestSizeNum / TestSizeDen
TestSizeNum == 1
TestSizeDen == 5
\* random_state = 42
RandomSeed == 42
\* outlier_removal(df_train, 120)
OutlierThreshold == 120
\* cv = 5
FoldCount == 5
tree_grid == <<100, 200, 300>>
depth_grid == <<1, 5, 10, 20>>

---------------------------------------------------------------------------
(* Exact arithmetic *)

Abs(x) == IF x < 0 THEN -x ELSE x

RECURSIVE GCD(_, _)
GCD(a, b) == IF b = 0 THEN a ELSE GCD(b, a % b)

\* the rational n/d in lowest terms with a positive denominator
Q(n, d) ==
    LET g == GCD(Abs(n), Abs(d))
        s == IF d < 0 THEN -1 ELSE 1
    IN  [n |-> (s * n) \div g, d |-> (s * d) \div g]

QInt(i) == [n |-> i, d |-> 1]
QAdd(a, b) == Q(a.n * b.d + b.n * a.d, a.d * b.d)
QSub(a, b) == Q(a.n * b.d - b.n * a.d, a.d * b.d)
QMul(a, b) == Q(a.n * b.n, a.d * b.d)
QDiv(a, b) == Q(a.n * b.d, a.d * b.n)
QLess(a, b) == a.n * b.d < b.n * a.d

RECURSIVE QSum(_)
QSum(s) == IF s = <<>> THEN QInt(0) ELSE QAdd(Head(s), QSum(Tail(s)))

\* np.mean of a non-empty sequence of rationals
QMean(s) == QDiv(QSum(s), QInt(Len(s)))

\* np.var (population variance, ddof = 0) of a non-empty sequence
QVar(s) ==
    LET m == QMean(s)
    IN  QMean([i \in 1..Len(s) |-> QMul(QSub(s[i], m), QSub(s[i], m))])

\* np.sqrt of a non-negative rational, kept symbolic
Sqrt(q) == [radicand |-> q]

---------------------------------------------------------------------------
(* Cell values *)

NaN == [k |-> "nan", s |-> "", n |-> 0, d |-> 1, vn |-> 1, vd |-> 1]
Str(x) == [k |-> "str", s |-> x, n |-> 0, d |-> 1, vn |-> 1, vd |-> 1]
Num(q) == [k |-> "num", s |-> "", n |-> q.n, d |-> q.d, vn |-> 1, vd |-> 1]
IntV(i) == Num(QInt(i))

\* q divided by the square root of v (v > 0); 0 / anything is 0
Scaled(q, v) ==
    IF q.n = 0 \/ (v.n = 1 /\ v.d = 1) THEN Num(q)
    ELSE [k |-> "num", s |-> "", n |-> q.n, d |-> q.d, vn |-> v.n, vd |-> v.d]

IsNaN(v) == v.k = "nan"
IsPlain(v) == v.k = "num" /\ v.vn = 1 /\ v.vd = 1
QOf(v) == [n |-> v.n, d |-> v.d]

\* v > t for a plain number v and an integer t; a comparison with NaN is False
Greater(v, t) == v.k = "num" /\ v.n > t * v.d
\* v == 0.0
IsZero(v) == v.k = "num" /\ v.n = 0

---------------------------------------------------------------------------
(* Sequences *)

RECURSIVE SelectIdx(_, _, _)
\* the indices i of 1..n, in order, with Keep(i)
SelectIdx(n, Keep(_), i) ==
    IF i > n THEN <<>>
    ELSE (IF Keep(i) THEN <<i>> ELSE <<>>) \o SelectIdx(n, Keep, i + 1)

Filter(s, Keep(_)) ==
    LET LOCALKEEP(i) == Keep(s[i])
        idx == SelectIdx(Len(s), LOCALKEEP, 1)
    IN  [j \in 1..Len(idx) |-> s[idx[j]]]

Range(s) == {s[i] : i \in 1..Len(s)}

---------------------------------------------------------------------------
(* Data frames: named columns in order, and rows carrying their index label *)

NoTable == [columns |-> <<>>, rows |-> <<>>]

NRows(t) == Len(t.rows)
Labels(t) == {t.rows[i].label : i \in 1..Len(t.rows)}
HasColumn(t, c) == c \in Range(t.columns)

\* dframe[c] as the sequence of its values
Column(t, c) == [i \in 1..Len(t.rows) |-> t.rows[i].cells[c]]

\* the rows of t at the given positions, in that order (DataFrame.iloc / take)
TakeRows(t, positions) ==
    [t EXCEPT !.rows = [j \in 1..Len(positions) |-> t.rows[positions[j]]]]

\* the rows of t for which Keep holds, in order
KeepRows(t, Keep(_)) == [t EXCEPT !.rows = Filter(t.rows, Keep)]

\* DataFrame.drop(labels=c, axis=1)
DropColumn(t, c) ==
    LET NotC(x) == x # c
    IN  [columns |-> Filter(t.columns, NotC),
         rows |-> [i \in 1..Len(t.rows) |->
                     [label |-> t.rows[i].label,
                      cells |-> [x \in (DOMAIN t.rows[i].cells) \ {c} |->
                                   t.rows[i].cells[x]]]]]

\* dframe[c] = values
SetColumn(t, c, values) ==
    [columns |-> IF HasColumn(t, c) THEN t.columns ELSE Append(t.columns, c),
     rows |-> [i \in 1..Len(t.rows) |->
                 [label |-> t.rows[i].label,
                  cells |-> [x \in (DOMAIN t.rows[i].cells) \cup {c} |->
                               IF x = c THEN values[i] ELSE t.rows[i].cells[x]]]]]

\* pd.read_csv: the rows of the file under a RangeIndex 0, 1, 2, ...
ReadCsv(file) ==
    [columns |-> <<"month", "day", "FFMC", "DC", "temp", "rain", "area">>,
     rows |-> [i \in 1..Len(file) |-> [label |-> i - 1, cells |-> file[i]]]]

\* drop_duplicates(keep=False): every row that has a duplicate is dropped
DropDuplicatesKeepNone(t) ==
    KeepRows(t, LAMBDA r : Cardinality({i \in 1..Len(t.rows) :
                                           t.rows[i].cells = r.cells}) = 1)

\* DataFrame.drop_duplicates: keep the first of the rows equal in every column
\* (the index is not compared, and a missing value equals a missing value)
DropDuplicates(t) ==
    LET idx == SelectIdx(Len(t.rows),
                         LAMBDA i : \A j \in 1..(i - 1) :
                                       t.rows[j].cells # t.rows[i].cells, 1)
    IN  TakeRows(t, idx)

\* the categories of month in sorted order, and the indicator column of each
MonthNames == <<"apr", "aug", "dec", "feb", "jan", "jul",
                "jun", "mar", "may", "nov", "oct", "sep">>
MonthColumns == <<"month_apr", "month_aug", "month_dec", "month_feb",
                  "month_jan", "month_jul", "month_jun", "month_mar",
                  "month_may", "month_nov", "month_oct", "month_sep">>

\* pd.get_dummies(df, columns=["month"]): one 0/1 column per category observed
\* in the frame, in sorted order, appended after the remaining columns
GetDummies(t) ==
    LET seen == {t.rows[i].cells["month"].s :
                    i \in {j \in 1..Len(t.rows) : t.rows[j].cells["month"].k = "str"}}
        cats == SelectIdx(Len(MonthNames), LAMBDA m : MonthNames[m] \in seen, 1)
        rest == DropColumn(t, "month")
        newcols == [j \in 1..Len(cats) |-> MonthColumns[cats[j]]]
        CatOf(c) == CHOOSE m \in Range(cats) : MonthColumns[m] = c
    IN  [columns |-> rest.columns \o newcols,
         rows |-> [i \in 1..Len(t.rows) |->
                     [label |-> t.rows[i].label,
                      cells |-> [c \in (DOMAIN rest.rows[i].cells) \cup Range(newcols) |->
                                   IF c \in Range(newcols)
                                   THEN IF t.rows[i].cells["month"] = Str(MonthNames[CatOf(c)])
                                        THEN IntV(1) ELSE IntV(0)
                                   ELSE rest.rows[i].cells[c]]]]]

\* DataFrame.dropna: the rows without a missing value in any column
Dropna(t) ==
    KeepRows(t, LAMBDA r : \A c \in DOMAIN r.cells : ~IsNaN(r.cells[c]))

---------------------------------------------------------------------------
(* numpy RandomState, abstracted to a small linear congruential generator.  *)
(* What is kept: a generator built from an int seed starts in a state that  *)
(* is a function of the seed alone, every draw advances the state, and      *)
(* permutation(n) is the Fisher-Yates shuffle of arange(n) driven by draws. *)

RngStates == 0..(RngModulus - 1)
RngNext(s) == (5 * s + 3) % RngModulus
\* RandomState(seed)
Seeded(seed) == seed % RngModulus

RECURSIVE Shuffle(_, _, _)
\* for i in reversed(range(1, n)): j = interval(i); x[i], x[j] = x[j], x[i]
Shuffle(x, i, s) ==
    IF i < 2 THEN [perm |-> x, state |-> s]
    ELSE LET s1 == RngNext(s)
             j == (s1 % i) + 1
         IN  Shuffle([x EXCEPT ![i] = x[j], ![j] = x[i]], i - 1, s1)

\* rng.permutation(n), as positions 1..n, with the state the generator is left in
Permutation(n, s) == Shuffle([i \in 1..n |-> i], n, s)

---------------------------------------------------------------------------
(* sklearn.model_selection.train_test_split(df, test_size, random_state)    *)

\* n_test = round(test_size * n_samples)
NTestNearest(n) == (2 * n * TestSizeNum + TestSizeDen) \div (2 * TestSizeDen)

\* n_test = ceil(test_size * n_samples)
NTest(n) == (n * TestSizeNum + TestSizeDen - 1) \div TestSizeDen
\* n_train = n_samples - n_test (train_size is None)
NTrain(n) == n - NTest(n)

\* random_state=None: the shuffle draws from numpy's global generator
CheckRandomStateGlobal(global, n) ==
    [rng |-> global, global |-> Permutation(n, global).state]

\* check_random_state(random_state) for a shuffle of n rows: with the int seed
\* it builds a fresh RandomState (rng) and leaves numpy's global one alone
CheckRandomState(global, n) == [rng |-> Seeded(RandomSeed), global |-> global]

\* train = permutation[n_test - 1:], one position too early
TrainTestSplitOverlap(t, rng) ==
    LET n == NRows(t)
        p == Permutation(n, rng).perm
    IN  [train |-> TakeRows(t, SubSeq(p, IF NTest(n) = 0 THEN 1 ELSE NTest(n), n)),
         test |-> TakeRows(t, SubSeq(p, 1, NTest(n)))]

\* t without the month indicator columns that are 0 in every row of t: what
\* get_dummies would give on t alone
EncodedAlone(t) ==
    LET dead == {c \in Range(MonthColumns) :
                    HasColumn(t, c) /\ \A i \in 1..NRows(t) :
                                         t.rows[i].cells[c] = IntV(0)}
    IN  [columns |-> Filter(t.columns, LAMBDA c : c \notin dead),
         rows |-> [i \in 1..NRows(t) |->
                     [label |-> t.rows[i].label,
                      cells |-> [c \in (DOMAIN t.rows[i].cells) \ dead |->
                                   t.rows[i].cells[c]]]]]

\* the split with the month encoded after it, each part on its own
TrainTestSplitThenEncode(t, rng) ==
    LET n == NRows(t)
        p == Permutation(n, rng).perm
    IN  [train |-> EncodedAlone(TakeRows(t, SubSeq(p, NTest(n) + 1, n))),
         test |-> EncodedAlone(TakeRows(t, SubSeq(p, 1, NTest(n))))]

\* ShuffleSplit: test = permutation[:n_test], train = permutation[n_test:]
TrainTestSplit(t, rng) ==
    LET n == NRows(t)
        p == Permutation(n, rng).perm
    IN  [train |-> TakeRows(t, SubSeq(p, NTest(n) + 1, n)),
         test |-> TakeRows(t, SubSeq(p, 1, NTest(n)))]

---------------------------------------------------------------------------
(* sklearn.preprocessing.Imputer(missing_values=NaN, strategy="mean")       *)

NewImputer == [fitted |-> FALSE, statistics_ |-> NaN]

\* the values of a column that are not missing, as rationals
Present(values) ==
    LET idx == SelectIdx(Len(values), LAMBDA i : ~IsNaN(values[i]), 1)
    IN  [j \in 1..Len(idx) |-> QOf(values[idx[j]])]

\* Imputer.fit: statistics_ is the mean of the values present, NaN if none is
ImputerFit(values) ==
    [fitted |-> TRUE,
     statistics_ |-> IF Present(values) = <<>> THEN NaN
                     ELSE Num(QMean(Present(values)))]

\* Imputer.transform(...).ravel(): each missing value replaced by statistics_;
\* a column whose statistics_ is NaN is removed, which leaves no value at all
ImputerTransform(im, values) ==
    IF IsNaN(im.statistics_) THEN <<>>
    ELSE [i \in 1..Len(values) |->
            IF IsNaN(values[i]) THEN im.statistics_ ELSE values[i]]

---------------------------------------------------------------------------
(* outlier_removal(dframe, threshold)                                       *)

\* rows_to_remove = dframe["FFMC"] >= threshold
outlier_removal_ge(dframe, threshold) ==
    LET index == {dframe.rows[i].label :
                     i \in {j \in 1..NRows(dframe) :
                               /\ dframe.rows[j].cells["FFMC"].k = "num"
                               /\ dframe.rows[j].cells["FFMC"].n >=
                                     threshold * dframe.rows[j].cells["FFMC"].d}}
    IN  KeepRows(dframe, LAMBDA r : r.label \notin index)

outlier_removal(dframe, threshold) ==
    LET \* rows_to_remove = dframe["FFMC"] > threshold
        rows_to_remove == [i \in 1..NRows(dframe) |->
                             Greater(dframe.rows[i].cells["FFMC"], threshold)]
        \* dframe[rows_to_remove].index
        index == {dframe.rows[i].label :
                     i \in {j \in 1..NRows(dframe) : rows_to_remove[j]}}
    IN  \* dframe.drop(index): every row carrying one of these labels goes
        KeepRows(dframe, LAMBDA r : r.label \notin index)

---------------------------------------------------------------------------
(* sklearn.preprocessing.StandardScaler                                     *)

NewScaler == [fitted |-> FALSE, mean_ |-> QInt(0), var_ |-> QInt(0),
              scale2 |-> QInt(1)]

\* scale_ = sqrt(var_) without the replacement of a zero scale
KeepZeroScale(var) == var

\* the square of scale_: scale_ = sqrt(var_), and a scale_ of 0.0 is set to 1.0
HandleZerosInScale(var) == IF var.n = 0 THEN QInt(1) ELSE var

\* StandardScaler.fit on a non-empty column without missing values
ScalerFit(values) ==
    LET xs == [i \in 1..Len(values) |-> QOf(values[i])]
    IN  [fitted |-> TRUE, mean_ |-> QMean(xs), var_ |-> QVar(xs),
         scale2 |-> HandleZerosInScale(QVar(xs))]

\* StandardScaler.transform(...).ravel(): (x - mean_) / scale_
ScalerTransform(sc, values) ==
    [i \in 1..Len(values) |-> Scaled(QSub(QOf(values[i]), sc.mean_), sc.scale2)]

---------------------------------------------------------------------------
(* add_did_it_rain(dframe): the frame it assigns the new column to          *)

\* dframe["rain"].where(dframe["rain"] != 0.0, other = 1): the condition not
\* negated, so that the rain is kept where there is some and 1 is put elsewhere
DidItRainKeepsRain(rain) ==
    [i \in 1..Len(rain) |-> IF IsZero(rain[i]) THEN IntV(1) ELSE rain[i]]

\* dframe["rain"].where(dframe["rain"] == 0.0, other = 1)
DidItRain(rain) ==
    [i \in 1..Len(rain) |-> IF IsZero(rain[i]) THEN rain[i] ELSE IntV(1)]

add_did_it_rain(dframe) ==
    SetColumn(dframe, "did_it_rain", DidItRain(Column(dframe, "rain")))

---------------------------------------------------------------------------
(* Objects: how each preprocessing call treats the frame it is given        *)

\* the call writes its result into the frame it was given
InPlace(h, arg, t) == [heap |-> [h EXCEPT ![arg] = t], ret |-> arg]
\* the call builds a new frame and leaves the one it was given alone
NewFrame(h, arg, t) == [heap |-> Append(h, t), ret |-> Len(h) + 1]

\* df.drop_duplicates(inplace=True)
DropDuplicatesCall(h, arg) == InPlace(h, arg, DropDuplicates(h[arg]))
\* df.drop(labels="day", axis=1, inplace=True)
DropDayCall(h, arg) == InPlace(h, arg, DropColumn(h[arg], "day"))
\* df = pd.get_dummies(df, columns=["month"])
GetDummiesCall(h, arg) == NewFrame(h, arg, GetDummies(h[arg]))
\* dframe["DC"] = imp.fit_transform(dframe[["DC"]]).ravel(): the imputer is
\* fitted again on the frame it fills (when that frame has a DC value)
ImputeCallRefit(h, arg, im) ==
    LET refit == ImputerFit(Column(h[arg], "DC"))
        used == IF IsNaN(refit.statistics_) THEN im ELSE refit
    IN  InPlace(h, arg, SetColumn(h[arg], "DC",
                                  ImputerTransform(used, Column(h[arg], "DC"))))

\* dframe["DC"] = imp.transform(dframe[["DC"]]).ravel()
ImputeCall(h, arg, im) ==
    InPlace(h, arg, SetColumn(h[arg], "DC", ImputerTransform(im, Column(h[arg], "DC"))))
\* dframe.dropna(inplace=True)
DropnaCall(h, arg) == InPlace(h, arg, Dropna(h[arg]))
\* dframe.drop(index, inplace=True); return dframe
OutlierRemovalInPlace(h, arg, threshold) ==
    InPlace(h, arg, outlier_removal(h[arg], threshold))

\* dframe = outlier_removal(dframe, threshold): DataFrame.drop returns a new frame
OutlierRemovalCall(h, arg, threshold) ==
    NewFrame(h, arg, outlier_removal(h[arg], threshold))
\* dframe["DC"] = normalizer.fit_transform(dframe[["DC"]]).ravel()
NormalizeCallRefit(h, arg, sc) ==
    InPlace(h, arg, SetColumn(h[arg], "DC",
                              ScalerTransform(ScalerFit(Column(h[arg], "DC")),
                                              Column(h[arg], "DC"))))

\* dframe["DC"] = normalizer.transform(dframe[["DC"]]).ravel()
NormalizeCall(h, arg, sc) ==
    InPlace(h, arg, SetColumn(h[arg], "DC", ScalerTransform(sc, Column(h[arg], "DC"))))
\* dframe = add_did_it_rain(dframe): assigns the column and returns dframe itself
AddDidItRainCall(h, arg) == InPlace(h, arg, add_did_it_rain(h[arg]))

\* the record kept of a preprocessing call
Called(op, h, arg, r) ==
    [seq |-> call.seq + 1, op |-> op, arg |-> arg, ret |-> r.ret, before |-> h[arg]]

---------------------------------------------------------------------------
(* Inputs *)

Cells(month, day, ffmc, dc, temp, rain, area) ==
    [month |-> month, day |-> day, FFMC |-> ffmc, DC |-> dc, temp |-> temp,
     rain |-> rain, area |-> area]

\* the rows a csv file of the model is made of: a plain row, the same row on
\* another day, a row without DC whose FFMC is exactly the threshold, an
\* outlier, a row with a missing value outside DC, and a complete row with
\* more rain than 1
CsvRows ==
    { Cells(Str("aug"), Str("mon"), IntV(90), IntV(1), IntV(20), IntV(0), IntV(0)),
      Cells(Str("aug"), Str("tue"), IntV(90), IntV(1), IntV(20), IntV(0), IntV(0)),
      Cells(Str("sep"), Str("mon"), IntV(OutlierThreshold), NaN, IntV(20), IntV(1), IntV(5)),
      Cells(Str("aug"), Str("mon"), IntV(OutlierThreshold + 1), IntV(3), IntV(20), IntV(0), IntV(2)),
      Cells(Str("mar"), Str("fri"), IntV(90), IntV(2), NaN, IntV(2), IntV(1)),
      Cells(Str("aug"), Str("sat"), IntV(100), IntV(5), IntV(25), IntV(2), IntV(3)) }

CsvFiles == UNION {[1..n -> CsvRows] : n \in 0..MaxRows}

\* a csv file of LongRows distinct rows, rows g and g + 1 (cyclically) without
\* DC: long enough for a test part of more than one row
LongCsv(g) ==
    [i \in 1..LongRows |->
        Cells(Str(IF i % 3 = 0 THEN "sep" ELSE "aug"), Str("mon"), IntV(90),
              IF i \in {g, (g % LongRows) + 1} THEN NaN ELSE IntV(i), IntV(20),
              IntV(i % 2), IntV(i))]

LongFiles == {LongCsv(g) : g \in 1..LongRows}

\* a csv file of n distinct rows without outliers, one of them without DC
SweepCsv(n) ==
    [i \in 1..n |->
        Cells(Str(IF i % 3 = 0 THEN "sep" ELSE "aug"), Str("mon"), IntV(90),
              IF i = 2 THEN NaN ELSE IntV(i), IntV(20), IntV(i % 2), IntV(i))]

\* the same file with the month mar in exactly the rows that the split puts
\* in the test part: a category no training row has
RareMonthCsv(n) ==
    LET held == Range(SubSeq(Permutation(n, Seeded(RandomSeed)).perm, 1, NTest(n)))
    IN  [i \in 1..n |->
            IF i \in held THEN [SweepCsv(n)[i] EXCEPT !.month = Str("mar")]
            ELSE SweepCsv(n)[i]]

SweepFiles ==
    {SweepCsv(n) : n \in 1..SweepMaxRows} \cup {RareMonthCsv(SweepMaxRows)}

\* what cross_validate can return for the opaque estimator: per fold, an R^2
\* and a negated mean squared error
FoldOutcomes ==
    { [test_r2 |-> <<Q(1, 5), Q(2, 5), Q(3, 5), Q(4, 5), Q(1, 1)>>,
       test_neg_mean_squared_error |->
           <<QInt(-1), QInt(-4), QInt(-9), QInt(-16), QInt(-25)>>],
      [test_r2 |-> <<Q(-1, 2), Q(0, 1), Q(1, 2), Q(0, 1), Q(1, 4)>>,
       test_neg_mean_squared_error |->
           <<QInt(-4), QInt(-4), QInt(-4), QInt(-4), QInt(-4)>>] }

---------------------------------------------------------------------------
(* Initial state: a kernel in which no cell has run *)

\* an estimator: how often fit has run, the matrix and columns of the last
\* fit, and the method calls made on the object since it was constructed
NoModel == [fits |-> 0, fitOn |-> 0, cols |-> <<>>, calls |-> <<>>]
NoUse == [by |-> "", X |-> 0, cols |-> <<>>]
NoOutcome == [test_r2 |-> <<>>, test_neg_mean_squared_error |-> <<>>]
NoCall == [seq |-> 0, op |-> "", arg |-> 0, ret |-> 0, before |-> NoTable]
NoHist == [splits |-> <<>>, trainAtImpFit |-> NoTable, testBeforeImp |-> NoTable,
           trainAtNormFit |-> NoTable, normAtFit |-> NewScaler,
           testBeforeNorm |-> NoTable, lastCv |-> NoOutcome, err |-> "",
           errAt |-> ""]

InitWith(files, generators) ==
    /\ csv \in files
    /\ pc = "read_csv"
    /\ run = 1
    /\ heap = <<>>
    /\ df = 0 /\ df_train = 0 /\ df_test = 0
    /\ X_train = 0 /\ y_train = <<>> /\ X_test = 0 /\ y_test = <<>>
    /\ imp = NewImputer
    /\ normalizer = NewScaler
    /\ model = NoModel
    /\ rf_final_model = NoModel
    /\ predictions = NoUse
    /\ score = NoUse
    /\ results = {}
    /\ gridPos = 0
    /\ npGlobalRng \in generators
    /\ call = NoCall
    /\ hist = NoHist

\* numpy's global generator is seeded from the system: any state
Init == InitWith(CsvFiles \cup LongFiles, RngStates)
\* the draws of the estimators reach no value the grid search stores: the
\* sweep is explored from one state of the generator
SweepInit == InitWith(SweepFiles, {Seeded(0)})

---------------------------------------------------------------------------
(* The cells of the notebook, in order *)

env == <<run, csv, npGlobalRng>>
estimators == <<model, rf_final_model>>
outputs == <<predictions, score, results, gridPos>>

\* an exception ends the run of the notebook at the cell that raised it
Raise(kind) ==
    /\ pc' = "error"
    /\ hist' = [hist EXCEPT !.err = kind, !.errAt = pc]

\* df = pd.read_csv(data_path)
ReadCsvCell ==
    /\ pc = "read_csv"
    /\ heap' = Append(heap, ReadCsv(csv))
    /\ df' = Len(heap) + 1
    /\ pc' = "drop_duplicates"
    /\ UNCHANGED <<env, df_train, df_test, X_train, y_train, X_test, y_test, imp,
                   normalizer, estimators, outputs, call, hist>>

\* df.drop_duplicates(inplace=True)
DropDuplicatesCell ==
    /\ pc = "drop_duplicates"
    /\ LET r == DropDuplicatesCall(heap, df)
       IN  /\ heap' = r.heap
           /\ df' = r.ret
           /\ call' = Called("drop_duplicates", heap, df, r)
    /\ pc' = "drop_day"
    /\ UNCHANGED <<env, df_train, df_test, X_train, y_train, X_test, y_test, imp,
                   normalizer, estimators, outputs, hist>>

\* df.drop(labels="day", axis=1, inplace=True)
DropDayCell ==
    /\ pc = "drop_day"
    /\ LET r == DropDayCall(heap, df)
       IN  /\ heap' = r.heap
           /\ df' = r.ret
           /\ call' = Called("drop_column", heap, df, r)
    /\ pc' = "get_dummies"
    /\ UNCHANGED <<env, df_train, df_test, X_train, y_train, X_test, y_test, imp,
                   normalizer, estimators, outputs, hist>>

\* df = pd.get_dummies(df, columns=["month"])
GetDummiesCell ==
    /\ pc = "get_dummies"
    /\ LET r == GetDummiesCall(heap, df)
       IN  /\ heap' = r.heap
           /\ df' = r.ret
           /\ call' = Called("get_dummies", heap, df, r)
    /\ pc' = "train_test_split"
    /\ UNCHANGED <<env, df_train, df_test, X_train, y_train, X_test, y_test, imp,
                   normalizer, estimators, outputs, hist>>

\* df_train, df_test = train_test_split(df, test_size=0.2, random_state=42)
\* With an empty training part, the library raises ValueError or returns the
\* empty frame, depending on its version.
SplitCell ==
    /\ pc = "train_test_split"
    /\ \E raises \in {b \in BOOLEAN : b => NTrain(NRows(heap[df])) = 0} :
         IF raises
         THEN /\ Raise("ValueError")
              /\ UNCHANGED <<heap, df_train, df_test, npGlobalRng>>
         ELSE LET random_state == CheckRandomState(npGlobalRng, NRows(heap[df]))
                  parts == TrainTestSplit(heap[df], random_state.rng)
              IN  /\ heap' = heap \o <<parts.train, parts.test>>
                  /\ npGlobalRng' = random_state.global
                  /\ df_train' = Len(heap) + 1
                  /\ df_test' = Len(heap) + 2
                  /\ pc' = "imp_fit"
                  /\ hist' = [hist EXCEPT !.splits = Append(@,
                                 [input |-> heap[df], train |-> parts.train,
                                  test |-> parts.test])]
    /\ UNCHANGED <<run, csv, df, X_train, y_train, X_test, y_test, imp, normalizer,
                   estimators, outputs, call>>

\* imp = Imputer(missing_values=np.NaN, strategy="mean"); imp.fit(df_train[["DC"]])
ImpFitCell ==
    /\ pc = "imp_fit"
    /\ IF NRows(heap[df_train]) = 0
       THEN /\ Raise("ValueError")
            /\ imp' = NewImputer
       ELSE /\ imp' = ImputerFit(Column(heap[df_train], "DC"))
            /\ pc' = "imp_train"
            /\ hist' = [hist EXCEPT !.trainAtImpFit = heap[df_train]]
    /\ UNCHANGED <<env, heap, df, df_train, df_test, X_train, y_train, X_test,
                   y_test, normalizer, estimators, outputs, call>>

\* df_train["DC"] = imp.transform(df_train[["DC"]]).ravel()
\* With no DC value in the training part the transform returns no column, and
\* the assignment of an empty array to the column raises ValueError.
ImpTransformTrainCell ==
    /\ pc = "imp_train"
    /\ IF IsNaN(imp.statistics_)
       THEN /\ Raise("ValueError")
            /\ UNCHANGED <<heap, df_train, call>>
       ELSE LET r == ImputeCall(heap, df_train, imp)
            IN  /\ heap' = r.heap
                /\ df_train' = r.ret
                /\ call' = Called("imputation", heap, df_train, r)
                /\ pc' = "dropna_train"
                /\ UNCHANGED hist
    /\ UNCHANGED <<env, df, df_test, X_train, y_train, X_test, y_test, imp,
                   normalizer, estimators, outputs>>

\* df_train.dropna(inplace=True)
DropnaTrainCell ==
    /\ pc = "dropna_train"
    /\ LET r == DropnaCall(heap, df_train)
       IN  /\ heap' = r.heap
           /\ df_train' = r.ret
           /\ call' = Called("dropna", heap, df_train, r)
    /\ pc' = "outlier_train"
    /\ UNCHANGED <<env, df, df_test, X_train, y_train, X_test, y_test, imp,
                   normalizer, estimators, outputs, hist>>

\* df_train = outlier_removal(df_train, 120)
OutlierTrainCell ==
    /\ pc = "outlier_train"
    /\ LET r == OutlierRemovalCall(heap, df_train, OutlierThreshold)
       IN  /\ heap' = r.heap
           /\ df_train' = r.ret
           /\ call' = Called("outlier_removal", heap, df_train, r)
    /\ pc' = "norm_fit"
    /\ UNCHANGED <<env, df, df_test, X_train, y_train, X_test, y_test, imp,
                   normalizer, estimators, outputs, hist>>

\* normalizer = StandardScaler(); normalizer.fit(df_train[["DC"]])
NormFitCell ==
    /\ pc = "norm_fit"
    /\ IF NRows(heap[df_train]) = 0
       THEN /\ Raise("ValueError")
            /\ normalizer' = NewScaler
       ELSE /\ normalizer' = ScalerFit(Column(heap[df_train], "DC"))
            /\ pc' = "norm_train"
            /\ hist' = [hist EXCEPT !.trainAtNormFit = heap[df_train],
                                    !.normAtFit = normalizer']
    /\ UNCHANGED <<env, heap, df, df_train, df_test, X_train, y_train, X_test,
                   y_test, imp, estimators, outputs, call>>

\* df_train["DC"] = normalizer.transform(df_train[["DC"]]).ravel()
NormTransformTrainCell ==
    /\ pc = "norm_train"
    /\ LET r == NormalizeCall(heap, df_train, normalizer)
       IN  /\ heap' = r.heap
           /\ df_train' = r.ret
           /\ call' = Called("normalization", heap, df_train, r)
    /\ pc' = "rain_train"
    /\ UNCHANGED <<env, df, df_test, X_train, y_train, X_test, y_test, imp,
                   normalizer, estimators, outputs, hist>>

\* df_train = add_did_it_rain(df_train)
RainTrainCell ==
    /\ pc = "rain_train"
    /\ LET r == AddDidItRainCall(heap, df_train)
       IN  /\ heap' = r.heap
           /\ df_train' = r.ret
           /\ call' = Called("add_did_it_rain", heap, df_train, r)
    /\ pc' = "xy_train"
    /\ UNCHANGED <<env, df, df_test, X_train, y_train, X_test, y_test, imp,
                   normalizer, estimators, outputs, hist>>

\* X_train = df_train.drop("area", axis=1); y_train = df_train["area"]
XyTrainCell ==
    /\ pc = "xy_train"
    /\ heap' = Append(heap, DropColumn(heap[df_train], "area"))
    /\ X_train' = Len(heap) + 1
    /\ y_train' = Column(heap[df_train], "area")
    /\ pc' = "linear_fit"
    /\ UNCHANGED <<env, df, df_train, df_test, X_test, y_test, imp, normalizer,
                   estimators, outputs, call, hist>>

\* LinearRegression(...), RandomForestRegressor(...): a new, unfitted object
NewEstimator == [fits |-> 0, fitOn |-> 0, cols |-> <<>>, calls |-> <<>>]

\* fit without effect: the estimator stays as constructed
FitSkipped(m, X, h) == m

\* estimator.fit(X, y): the estimator learns from the matrix X of the heap h
Fit(m, X, h) ==
    [fits |-> m.fits + 1, fitOn |-> X, cols |-> h[X].columns,
     calls |-> Append(m.calls, [op |-> "fit", X |-> X])]

\* estimator.predict(X), estimator.score(X, y): check_is_fitted raises
\* NotFittedError on an estimator that was never fitted
NotFitted(m) == m.fits = 0
Use(m, op, X) == [m EXCEPT !.calls = Append(@, [op |-> op, X |-> X])]

\* model = LinearRegression(...); model.fit(X_train, y_train);
\* print(... model.score(X_train, y_train))
LinearFitCell ==
    /\ pc = "linear_fit"
    /\ LET fitted == Fit(NewEstimator, X_train, heap)
       IN  IF NotFitted(fitted)
           THEN /\ model' = fitted
                /\ Raise("NotFittedError")
                /\ UNCHANGED score
           ELSE /\ model' = Use(fitted, "score", X_train)
                /\ score' = [by |-> "model", X |-> X_train,
                             cols |-> heap[X_train].columns]
                /\ pc' = "imp_test"
                /\ UNCHANGED hist
    /\ UNCHANGED <<env, heap, df, df_train, df_test, X_train, y_train, X_test,
                   y_test, imp, normalizer, rf_final_model, predictions, results,
                   gridPos, call>>

\* df_test["DC"] = imp.transform(df_test[["DC"]]).ravel()
ImpTransformTestCell ==
    /\ pc = "imp_test"
    /\ IF NRows(heap[df_test]) = 0
       THEN /\ Raise("ValueError")
            /\ UNCHANGED <<heap, df_test, call>>
       ELSE LET r == ImputeCall(heap, df_test, imp)
            IN  /\ heap' = r.heap
                /\ df_test' = r.ret
                /\ call' = Called("imputation", heap, df_test, r)
                /\ pc' = "dropna_test"
                /\ hist' = [hist EXCEPT !.testBeforeImp = heap[df_test]]
    /\ UNCHANGED <<env, df, df_train, X_train, y_train, X_test, y_test, imp,
                   normalizer, estimators, outputs>>

\* df_test.dropna(inplace=True)
DropnaTestCell ==
    /\ pc = "dropna_test"
    /\ LET r == DropnaCall(heap, df_test)
       IN  /\ heap' = r.heap
           /\ df_test' = r.ret
           /\ call' = Called("dropna", heap, df_test, r)
    /\ pc' = "outlier_test"
    /\ UNCHANGED <<env, df, df_train, X_train, y_train, X_test, y_test, imp,
                   normalizer, estimators, outputs, hist>>

\* df_test = outlier_removal(df_test, 120)
OutlierTestCell ==
    /\ pc = "outlier_test"
    /\ LET r == OutlierRemovalCall(heap, df_test, OutlierThreshold)
       IN  /\ heap' = r.heap
           /\ df_test' = r.ret
           /\ call' = Called("outlier_removal", heap, df_test, r)
    /\ pc' = "norm_test"
    /\ UNCHANGED <<env, df, df_train, X_train, y_train, X_test, y_test, imp,
                   normalizer, estimators, outputs, hist>>

\* df_test["DC"] = normalizer.transform(df_test[["DC"]]).ravel()
NormTransformTestCell ==
    /\ pc = "norm_test"
    /\ IF NRows(heap[df_test]) = 0
       THEN /\ Raise("ValueError")
            /\ UNCHANGED <<heap, df_test, call>>
       ELSE LET r == NormalizeCall(heap, df_test, normalizer)
            IN  /\ heap' = r.heap
                /\ df_test' = r.ret
                /\ call' = Called("normalization", heap, df_test, r)
                /\ pc' = "rain_test"
                /\ hist' = [hist EXCEPT !.testBeforeNorm = heap[df_test]]
    /\ UNCHANGED <<env, df, df_train, X_train, y_train, X_test, y_test, imp,
                   normalizer, estimators, outputs>>

\* df_test = add_did_it_rain(df_test)
RainTestCell ==
    /\ pc = "rain_test"
    /\ LET r == AddDidItRainCall(heap, df_test)
       IN  /\ heap' = r.heap
           /\ df_test' = r.ret
           /\ call' = Called("add_did_it_rain", heap, df_test, r)
    /\ pc' = "xy_test"
    /\ UNCHANGED <<env, df, df_train, X_train, y_train, X_test, y_test, imp,
                   normalizer, estimators, outputs, hist>>

\* X_test = df_test.drop("area", axis=1); y_test = df_test["area"]
XyTestCell ==
    /\ pc = "xy_test"
    /\ heap' = Append(heap, DropColumn(heap[df_test], "area"))
    /\ X_test' = Len(heap) + 1
    /\ y_test' = Column(heap[df_test], "area")
    /\ pc' = "predict"
    /\ UNCHANGED <<env, df, df_train, df_test, X_train, y_train, imp, normalizer,
                   estimators, outputs, call, hist>>

\* predictions = model.predict(X_test)
PredictCell ==
    /\ pc = "predict"
    /\ IF NotFitted(model)
       THEN /\ Raise("NotFittedError")
            /\ UNCHANGED <<model, predictions>>
       ELSE /\ model' = Use(model, "predict", X_test)
            /\ predictions' = [by |-> "model", X |-> X_test,
                               cols |-> heap[X_test].columns]
            /\ pc' = "score"
            /\ UNCHANGED hist
    /\ UNCHANGED <<env, heap, df, df_train, df_test, X_train, y_train, X_test,
                   y_test, imp, normalizer, rf_final_model, score, results,
                   gridPos, call>>

\* score = model.score(X_test, y_test)
ScoreCell ==
    /\ pc = "score"
    /\ IF NotFitted(model)
       THEN /\ Raise("NotFittedError")
            /\ UNCHANGED <<model, score>>
       ELSE /\ model' = Use(model, "score", X_test)
            /\ score' = [by |-> "model", X |-> X_test,
                         cols |-> heap[X_test].columns]
            /\ pc' = "cross_validate"
            /\ UNCHANGED hist
    /\ UNCHANGED <<env, heap, df, df_train, df_test, X_train, y_train, X_test,
                   y_test, imp, normalizer, rf_final_model, predictions, results,
                   gridPos, call>>

\* the estimator draws from numpy's global generator: random_state is not set
RandomForestDraw(s) == RngNext(s)

\* rf_model = RandomForestRegressor(n_estimators=100, max_depth=10)
\* scores = cross_validate(rf_model, X_train, y_train, cv=5, ...)
\* KFold raises ValueError when there are fewer samples than folds.
CrossValidateCell ==
    /\ pc = "cross_validate"
    /\ IF NRows(heap[X_train]) < FoldCount
       THEN /\ Raise("ValueError")
            /\ UNCHANGED npGlobalRng
       ELSE /\ npGlobalRng' = RandomForestDraw(npGlobalRng)
            /\ pc' = "grid_start"
            /\ UNCHANGED hist
    /\ UNCHANGED <<results, gridPos, run, csv, heap, df, df_train, df_test, X_train, y_train, X_test,
                   y_test, imp, normalizer, estimators, predictions, score, call>>

\* results = {}
GridStartCell ==
    /\ pc = "grid_start"
    /\ results' = {}
    /\ gridPos' = 0
    /\ pc' = "grid"
    /\ UNCHANGED <<env, heap, df, df_train, df_test, X_train, y_train, X_test,
                   y_test, imp, normalizer, estimators, predictions, score, call,
                   hist>>

\* the hyperparameters of iteration i (from 0) of
\* for n_trees in tree_grid: for depth in depth_grid
GridSize == Len(tree_grid) * Len(depth_grid)
GridTuple(i) ==
    <<tree_grid[(i \div Len(depth_grid)) + 1], depth_grid[(i % Len(depth_grid)) + 1]>>

\* r2 = np.mean(result["test_r2"])
MeanR2(result) == QMean(result.test_r2)
\* RMSE = np.mean(np.sqrt(-1 * result["test_neg_mean_squared_error"])), for
\* fold errors that are perfect squares
RMSEMeanOfRoots(result) ==
    LET nmse == result.test_neg_mean_squared_error
        Root(q) == CHOOSE r \in 0..(-q.n) : r * r = -q.n
        m == QMean([i \in 1..Len(nmse) |-> QInt(Root(nmse[i]))])
    IN  Sqrt(QMul(m, m))

\* RMSE = np.sqrt(-1 * np.mean(result["test_neg_mean_squared_error"]))
RMSE(result) == Sqrt(QMul(QInt(-1), QMean(result.test_neg_mean_squared_error)))

\* d[key] = value
DictSet(d, key, value) ==
    {e \in d : e.key # key} \cup {[key |-> key, value |-> value]}

\* one pass of the loop body: cross_validate, the two averages, the update
GridIteration ==
    /\ pc = "grid"
    /\ gridPos < GridSize
    /\ \E result \in FoldOutcomes :
         /\ results' = DictSet(results, GridTuple(gridPos),
                               <<MeanR2(result), RMSE(result)>>)
         /\ hist' = [hist EXCEPT !.lastCv = result]
    /\ npGlobalRng' = RandomForestDraw(npGlobalRng)
    /\ gridPos' = gridPos + 1
    /\ pc' = IF gridPos + 1 = GridSize THEN "final_fit" ELSE "grid"
    /\ UNCHANGED <<run, csv, heap, df, df_train, df_test, X_train, y_train, X_test,
                   y_test, imp, normalizer, estimators, predictions, score, call>>

\* rf_final_model = RandomForestRegressor(n_estimators=100, max_depth=1)
\* rf_final_model.fit(X_train, y_train)
FinalFitCell ==
    /\ pc = "final_fit"
    /\ rf_final_model' = Fit(NewEstimator, X_train, heap)
    /\ npGlobalRng' = RandomForestDraw(npGlobalRng)
    /\ pc' = "final_predict"
    /\ UNCHANGED <<run, csv, heap, df, df_train, df_test, X_train, y_train, X_test,
                   y_test, imp, normalizer, model, outputs, call, hist>>

\* predictions = rf_final_model.predict(X_test)
FinalPredictCell ==
    /\ pc = "final_predict"
    /\ IF NotFitted(rf_final_model)
       THEN /\ Raise("NotFittedError")
            /\ UNCHANGED <<rf_final_model, predictions>>
       ELSE /\ rf_final_model' = Use(rf_final_model, "predict", X_test)
            /\ predictions' = [by |-> "rf_final_model", X |-> X_test,
                               cols |-> heap[X_test].columns]
            /\ pc' = "final_score"
            /\ UNCHANGED hist
    /\ UNCHANGED <<env, heap, df, df_train, df_test, X_train, y_train, X_test,
                   y_test, imp, normalizer, model, score, results, gridPos, call>>

\* score = rf_final_model.score(X_test, y_test)
FinalScoreCell ==
    /\ pc = "final_score"
    /\ IF NotFitted(rf_final_model)
       THEN /\ Raise("NotFittedError")
            /\ UNCHANGED <<rf_final_model, score>>
       ELSE /\ rf_final_model' = Use(rf_final_model, "score", X_test)
            /\ score' = [by |-> "rf_final_model", X |-> X_test,
                         cols |-> heap[X_test].columns]
            /\ pc' = "done"
            /\ UNCHANGED hist
    /\ UNCHANGED <<env, heap, df, df_train, df_test, X_train, y_train, X_test,
                   y_test, imp, normalizer, model, predictions, results, gridPos,
                   call>>

\* the notebook is run again from its first cell in the same kernel: every
\* name stays bound until its cell rebinds it, and numpy's global generator
\* keeps its state
RunAgain ==
    /\ pc \in {"done", "error"}
    /\ run < MaxRuns
    /\ run' = run + 1
    /\ pc' = "read_csv"
    /\ hist' = [hist EXCEPT !.err = "", !.errAt = ""]
    /\ UNCHANGED <<csv, npGlobalRng, heap, df, df_train, df_test, X_train, y_train,
                   X_test, y_test, imp, normalizer, estimators, outputs, call>>

---------------------------------------------------------------------------
(* Specifications *)

Prepare ==
    \/ ReadCsvCell \/ DropDuplicatesCell \/ DropDayCell \/ GetDummiesCell
    \/ SplitCell \/ ImpFitCell \/ ImpTransformTrainCell \/ DropnaTrainCell
    \/ OutlierTrainCell \/ NormFitCell \/ NormTransformTrainCell \/ RainTrainCell
    \/ XyTrainCell \/ LinearFitCell \/ ImpTransformTestCell \/ DropnaTestCell
    \/ OutlierTestCell \/ NormTransformTestCell \/ RainTestCell \/ XyTestCell
    \/ PredictCell \/ ScoreCell \/ CrossValidateCell

\* every csv file of up to MaxRows rows, run up to MaxRuns times; files this
\* small leave fewer training rows than folds, so a run ends at cross_validate
Next == Prepare \/ RunAgain

Spec == Init /\ [][Next]_vars

\* csv files large enough for the grid search, run once to the last cell
SweepNext ==
    \/ Prepare
    \/ GridStartCell \/ GridIteration \/ FinalFitCell \/ FinalPredictCell
    \/ FinalScoreCell

SweepSpec == SweepInit /\ [][SweepNext]_vars

---------------------------------------------------------------------------
(* Where the current run of the notebook stands *)

CellOrder ==
    <<"read_csv", "drop_duplicates", "drop_day", "get_dummies", "train_test_split",
      "imp_fit", "imp_train", "dropna_train", "outlier_train", "norm_fit",
      "norm_train", "rain_train", "xy_train", "linear_fit", "imp_test",
      "dropna_test", "outlier_test", "norm_test", "rain_test", "xy_test",
      "predict", "score", "cross_validate", "grid_start", "grid", "final_fit",
      "final_predict", "final_score", "done">>

Rank(cell) == CHOOSE i \in 1..Len(CellOrder) : CellOrder[i] = cell
\* the cell the run is at: the next one to execute, or the one that raised
Here == IF pc = "error" THEN hist.errAt ELSE pc
\* the cell has completed in the current run
Done(cell) == Rank(Here) > Rank(cell)

Last(s) == s[Len(s)]
\* the split of the current run, once Done("train_test_split")
CurSplit == Last(hist.splits)
RowSet(t) == {t.rows[i] : i \in 1..NRows(t)}
CellsSet(t) == {t.rows[i].cells : i \in 1..NRows(t)}
DC(t) == Column(t, "DC")

---------------------------------------------------------------------------
(* C1 *)

\* the mean of the DC values present in the training part the split returned,
\* which is the frame imp.fit is given (NaN when none is present: then nothing
\* is ever filled in, the training-stage imputation raises)
TrainMeanAtFit ==
    LET present == Present(DC(CurSplit.train))
    IN  IF present = <<>> THEN NaN ELSE Num(QMean(present))

\* C1: no-leakage imputation.  From imp.fit to the end of the run the stored
\* statistics_ is the mean of the DC values present in the training part as
\* the split returned it; the test-stage imputation writes exactly that value
\* into every missing DC cell of the test part and leaves the other cells
\* alone, so the fill value is a function of the training part only.
NoLeakageImputation ==
    /\ Done("imp_fit") =>
          /\ hist.trainAtImpFit = CurSplit.train
          /\ imp.fitted
          /\ imp.statistics_ = TrainMeanAtFit
    /\ pc = "dropna_test" =>
          /\ ~IsNaN(TrainMeanAtFit)
          /\ hist.testBeforeImp = CurSplit.test
          /\ NRows(heap[df_test]) = NRows(CurSplit.test)
          /\ \A i \in 1..NRows(CurSplit.test) :
                heap[df_test].rows[i].cells["DC"] =
                   IF IsNaN(CurSplit.test.rows[i].cells["DC"]) THEN TrainMeanAtFit
                   ELSE CurSplit.test.rows[i].cells["DC"]

\* the test part had a missing DC value next to a present one that is not the
\* training mean, and the missing one has been filled
NoLeakageImputationWitness ==
    /\ pc = "dropna_test"
    /\ \E i, j \in 1..NRows(CurSplit.test) :
          /\ IsNaN(CurSplit.test.rows[i].cells["DC"])
          /\ ~IsNaN(CurSplit.test.rows[j].cells["DC"])
          /\ CurSplit.test.rows[j].cells["DC"] # TrainMeanAtFit
          /\ heap[df_test].rows[i].cells["DC"] = TrainMeanAtFit

---------------------------------------------------------------------------
(* C2 *)

\* C2: the normalization statistics are train-only and fitted once.  From
\* normalizer.fit to the end of the run the scaler holds the mean and variance
\* of DC over the training rows left after imputation, dropna and
\* outlier_removal (rows of the training part, none with a missing value or
\* an FFMC above the threshold); nothing changes the pair afterwards, and the
\* test transform computes (x - mean_) / scale_ with that same pair.
NormalizationTrainOnly ==
    /\ Done("norm_fit") =>
          LET fitOn == hist.trainAtNormFit
              xs == [i \in 1..NRows(fitOn) |-> QOf(fitOn.rows[i].cells["DC"])]
          IN  /\ Labels(fitOn) =
                    {r.label : r \in {q \in RowSet(CurSplit.train) :
                        /\ \A c \in DOMAIN q.cells : c # "DC" => ~IsNaN(q.cells[c])
                        /\ ~Greater(q.cells["FFMC"], OutlierThreshold)}}
              /\ \A i \in 1..NRows(fitOn) : IsPlain(fitOn.rows[i].cells["DC"])
              /\ normalizer.fitted
              /\ normalizer.mean_ = QMean(xs)
              /\ normalizer.var_ = QVar(xs)
              /\ normalizer = hist.normAtFit
    /\ pc = "rain_test" =>
          /\ NRows(heap[df_test]) = NRows(hist.testBeforeNorm)
          /\ \A i \in 1..NRows(heap[df_test]) :
                heap[df_test].rows[i].cells["DC"] =
                   Scaled(QSub(QOf(hist.testBeforeNorm.rows[i].cells["DC"]),
                               hist.normAtFit.mean_),
                          hist.normAtFit.scale2)

\* the test part has been transformed with a scaler fitted on training rows
\* of non-zero variance, and a test value that is not the training mean
NormalizationTrainOnlyWitness ==
    /\ pc = "rain_test"
    /\ normalizer.var_.n # 0
    /\ \E i \in 1..NRows(heap[df_test]) : ~IsZero(heap[df_test].rows[i].cells["DC"])

---------------------------------------------------------------------------
(* C3 *)

\* C3: the split partitions the table.  The two frames returned share no row,
\* together hold exactly the rows of the input, each once, and have its
\* columns; from then on df_train and df_test hold rows (by index label) of
\* the training and of the test part respectively, hence never a common one.
SplitPartitions ==
    Done("train_test_split") =>
       /\ RowSet(CurSplit.train) \cap RowSet(CurSplit.test) = {}
       /\ Labels(CurSplit.train) \cap Labels(CurSplit.test) = {}
       /\ RowSet(CurSplit.train) \cup RowSet(CurSplit.test) = RowSet(CurSplit.input)
       /\ NRows(CurSplit.train) + NRows(CurSplit.test) = NRows(CurSplit.input)
       /\ CurSplit.train.columns = CurSplit.input.columns
       /\ CurSplit.test.columns = CurSplit.input.columns
       /\ Labels(heap[df_train]) \subseteq Labels(CurSplit.train)
       /\ Labels(heap[df_test]) \subseteq Labels(CurSplit.test)
       /\ Cardinality(Labels(heap[df_train])) = NRows(heap[df_train])
       /\ Cardinality(Labels(heap[df_test])) = NRows(heap[df_test])

\* a split with both parts non-empty, later in the run, after rows were removed
SplitPartitionsWitness ==
    /\ Done("outlier_test")
    /\ NRows(CurSplit.train) >= 2
    /\ NRows(CurSplit.test) >= 1
    /\ NRows(heap[df_train]) < NRows(CurSplit.train)
    /\ NRows(heap[df_train]) >= 1

---------------------------------------------------------------------------
(* C4 *)

\* C4 as stated: the number of test rows is 0.2 * n rounded to the nearest
\* integer (k with |k - n/5| < 1/2), and the training rows are the rest.
SplitSizeNearest ==
    Done("train_test_split") =>
       LET n == NRows(CurSplit.input)
           k == NRows(CurSplit.test)
       IN  /\ 2 * Abs(TestSizeDen * k - TestSizeNum * n) < TestSizeDen
           /\ NRows(CurSplit.train) = n - k

\* C4, amended: the number of test rows is 0.2 * n rounded up (the least k
\* with k >= n/5), and the training rows are the rest.
SplitSizeCeiling ==
    Done("train_test_split") =>
       LET n == NRows(CurSplit.input)
           k == NRows(CurSplit.test)
       IN  /\ TestSizeDen * k >= TestSizeNum * n
           /\ TestSizeDen * (k - 1) < TestSizeNum * n
           /\ NRows(CurSplit.train) = n - k

\* a table of two rows is split into one training row and one test row
SplitSizeCeilingWitness ==
    /\ Done("train_test_split")
    /\ NRows(CurSplit.input) = 2
    /\ NRows(CurSplit.test) = 1
    /\ NRows(CurSplit.train) = 1

---------------------------------------------------------------------------
(* C5 *)

---------------------------------------------------------------------------
(* C6 *)

\* v <= t for a number v and an integer t
AtMost(v, t) == v.k = "num" /\ v.n <= t * v.d

\* thresholds on both sides of, and equal to, FFMC values that occur
OutlierThresholds ==
    {89, 90, OutlierThreshold - 1, OutlierThreshold, OutlierThreshold + 1}

\* out holds no row of t above the threshold and every row of t at or below it
RemovesExactly(t, out, threshold) ==
    /\ \A r \in RowSet(out) : ~Greater(r.cells["FFMC"], threshold)
    /\ RowSet(out) \subseteq RowSet(t)
    /\ \A r \in RowSet(t) : AtMost(r.cells["FFMC"], threshold) => r \in RowSet(out)
    /\ NRows(out) = Cardinality(RowSet(out))

\* C6: outlier filtering removes exactly the offending rows.  For the frame
\* a call is about to receive and every threshold, outlier_removal, which
\* drops by index label, returns no row with FFMC above the threshold and
\* every row with FFMC at or below it (a row equal to the threshold is kept);
\* so do the two calls the notebook makes, on the training and on the test
\* frame.
OutlierRemovalExact ==
    /\ pc = "outlier_train" => \A threshold \in OutlierThresholds :
          RemovesExactly(heap[df_train],
                         outlier_removal(heap[df_train], threshold), threshold)
    /\ pc = "outlier_test" => \A threshold \in OutlierThresholds :
          RemovesExactly(heap[df_test],
                         outlier_removal(heap[df_test], threshold), threshold)
    /\ call.op = "outlier_removal" =>
          RemovesExactly(call.before, heap[call.ret], OutlierThreshold)

\* a call that removed an outlier and kept a row whose FFMC is the threshold
OutlierRemovalExactWitness ==
    /\ call.op = "outlier_removal"
    /\ NRows(heap[call.ret]) < NRows(call.before)
    /\ \E r \in RowSet(heap[call.ret]) : r.cells["FFMC"] = IntV(OutlierThreshold)

---------------------------------------------------------------------------
(* C7 *)

GridProduct == {<<t, d>> : t \in Range(tree_grid), d \in Range(depth_grid)}

\* sqrt(mean(MSE)), the fold errors being the negated scores
RootOfMeanSquare(result) ==
    LET nmse == result.test_neg_mean_squared_error
    IN  Sqrt(QMean([i \in 1..Len(nmse) |-> QSub(QInt(0), nmse[i])]))

InGrid == pc = "grid" \/ Done("grid")

\* C7: the grid sweep result.  During the loop the dictionary has one entry
\* per tuple visited so far and the entry just written is (mean of the fold
\* R^2, square root of the mean of the fold MSE) of the cross_validate result
\* of that pass; after the loop the keys are exactly tree_grid x depth_grid,
\* one entry each, every value being such a pair for some result.
GridSweepResult ==
    /\ InGrid =>
          /\ {e.key : e \in results} = {GridTuple(i) : i \in 0..(gridPos - 1)}
          /\ Cardinality(results) = gridPos
          /\ \A e \in results :
                \E o \in FoldOutcomes :
                   e.value = <<QMean(o.test_r2), RootOfMeanSquare(o)>>
          /\ gridPos > 0 =>
                [key |-> GridTuple(gridPos - 1),
                 value |-> <<QMean(hist.lastCv.test_r2),
                             RootOfMeanSquare(hist.lastCv)>>] \in results
    /\ Done("grid") =>
          /\ {e.key : e \in results} = GridProduct
          /\ Cardinality(results) = Len(tree_grid) * Len(depth_grid)

\* the sweep is over, and the pass for (300, 20) saw fold errors
\* 1, 4, 9, 16, 25: its entry holds sqrt(11)
GridSweepResultWitness ==
    /\ pc = "done"
    /\ hist.lastCv.test_neg_mean_squared_error =
          <<QInt(-1), QInt(-4), QInt(-9), QInt(-16), QInt(-25)>>
    /\ \E e \in results : e.key = <<300, 20>> /\ e.value[2] = Sqrt(QInt(11))

---------------------------------------------------------------------------
(* C8 *)

InPlaceOps == {"drop_duplicates", "drop_column", "imputation", "dropna",
               "normalization", "add_did_it_rain"}
NewFrameOps == {"get_dummies", "outlier_removal"}

\* C8 as stated: every preprocessing call returns a new frame and leaves the
\* frame it was given as it was.
NoInPlaceMutation ==
    call.seq > 0 => call.ret # call.arg /\ heap[call.arg] = call.before

\* C8, amended: get_dummies and outlier_removal return a new frame and leave
\* the frame they were given as it was; drop_duplicates, the column drop, the
\* two DC assignments (imputation, normalization), dropna and add_did_it_rain
\* write into the frame they were given: the caller's frame is the result,
\* without the day column after the drop, with did_it_rain after
\* add_did_it_rain.
InPlaceExceptNewFrames ==
    /\ call.op \in NewFrameOps =>
          call.ret # call.arg /\ heap[call.arg] = call.before
    /\ call.op \in InPlaceOps => call.ret = call.arg
    /\ call.op = "drop_column" =>
          HasColumn(call.before, "day") /\ ~HasColumn(heap[call.arg], "day")
    /\ call.op = "add_did_it_rain" =>
          ~HasColumn(call.before, "did_it_rain")
             /\ HasColumn(heap[call.arg], "did_it_rain")

\* add_did_it_rain has changed the test frame it was given
InPlaceExceptNewFramesWitness ==
    /\ call.op = "add_did_it_rain"
    /\ call.arg = df_test
    /\ heap[call.arg] # call.before
    /\ heap[df_train] # heap[df_test]

---------------------------------------------------------------------------
(* C9 *)

ZeroVariance == normalizer.var_.n = 0

\* C9 as stated: with a training DC column of standard deviation zero the
\* normalization fails and no transformed training frame is produced.
ZeroVarianceIsError ==
    Done("norm_train") => ~ZeroVariance

\* C9, amended: when the variance the scaler computes for the training DC
\* column is zero, nothing is raised: the scaler divides by 1 instead, so the
\* training transform runs and makes every training DC value 0, and the test
\* transform turns each test value x into x - mean_.
ZeroVarianceScaleOne ==
    /\ (Done("norm_fit") /\ ZeroVariance) => normalizer.scale2 = QInt(1)
    /\ (Here = "norm_train" /\ ZeroVariance) => pc # "error"
    /\ (pc = "rain_train" /\ ZeroVariance) =>
          \A i \in 1..NRows(heap[df_train]) :
             heap[df_train].rows[i].cells["DC"] = IntV(0)
    /\ (pc = "rain_test" /\ ZeroVariance) =>
          \A i \in 1..NRows(heap[df_test]) :
             heap[df_test].rows[i].cells["DC"] =
                Num(QSub(QOf(hist.testBeforeNorm.rows[i].cells["DC"]),
                         normalizer.mean_))

\* a scaler fitted on equal training values has transformed both frames, and
\* a test value differs from the training mean
ZeroVarianceScaleOneWitness ==
    /\ pc = "rain_test"
    /\ ZeroVariance
    /\ NRows(hist.trainAtNormFit) >= 2
    /\ \E i \in 1..NRows(heap[df_test]) : ~IsZero(heap[df_test].rows[i].cells["DC"])

---------------------------------------------------------------------------
(* C10 *)

\* C10: deduplication.  After df.drop_duplicates the frame has no two rows
\* equal in every column, each of its rows is a row of the frame before, and
\* every distinct row of the frame before is there once.
Deduplication ==
    call.op = "drop_duplicates" =>
       LET T == call.before
           out == heap[call.ret]
       IN  /\ T = ReadCsv(csv)
           /\ \A i, j \in 1..NRows(out) :
                 out.rows[i].cells = out.rows[j].cells => i = j
           /\ RowSet(out) \subseteq RowSet(T)
           /\ CellsSet(out) = CellsSet(T)
           /\ NRows(out) = Cardinality(CellsSet(T))

\* a file with a repeated row has lost it
DeduplicationWitness ==
    /\ call.op = "drop_duplicates"
    /\ NRows(heap[call.ret]) < NRows(call.before)
    /\ NRows(heap[call.ret]) >= 2

---------------------------------------------------------------------------
(* C11 *)

\* the method calls made on m, in order
Ops(m) == [i \in 1..Len(m.calls) |-> m.calls[i].op]

\* m was fitted once, before any other call, on the training matrix, whose
\* rows are rows of the training part of the split and none of the test part
FittedOnceOnTrain(m) ==
    /\ m.fits = 1
    /\ Len(m.calls) >= 1
    /\ m.calls[1] = [op |-> "fit", X |-> X_train]
    /\ \A i \in 2..Len(m.calls) : m.calls[i].op \in {"predict", "score"}
    /\ m.fitOn = X_train
    /\ NRows(heap[m.fitOn]) >= 1
    /\ Labels(heap[m.fitOn]) \subseteq Labels(CurSplit.train)
    /\ Labels(heap[m.fitOn]) \cap Labels(CurSplit.test) = {}

\* C11: model lifecycle.  The linear model and the final forest are each
\* fitted exactly once, on X_train, before every predict or score made on
\* them: no call raises NotFittedError, an object that has received any call
\* received fit first and only once, the matrix of that fit holds training
\* rows only, and the predictions and the score kept in the kernel come from
\* a fitted object.
ModelLifecycle ==
    /\ hist.err # "NotFittedError"
    /\ \A m \in {model, rf_final_model} :
          m.calls = <<>> \/ FittedOnceOnTrain(m)
    /\ Done("linear_fit") => model.calls # <<>>
    /\ Done("final_fit") => rf_final_model.calls # <<>>
    /\ predictions.by = "model" => Done("linear_fit")
    /\ predictions.by = "rf_final_model" => Done("final_fit")
    /\ score.by = "model" => pc = "linear_fit" \/ Done("linear_fit")
    /\ score.by = "rf_final_model" => Done("final_fit")

\* the last cell has run: both objects were fitted and then used on the test
\* matrix
ModelLifecycleWitness ==
    /\ pc = "done"
    /\ Ops(model) = <<"fit", "score", "predict", "score">>
    /\ Ops(rf_final_model) = <<"fit", "predict", "score">>
    /\ rf_final_model.calls[3].X = X_test
    /\ NRows(heap[X_test]) >= 2

---------------------------------------------------------------------------
(* C12 *)

NoMissingRain(t) == \A i \in 1..NRows(t) : ~IsNaN(t.rows[i].cells["rain"])

\* out is t with one more column, did_it_rain, 0 where rain is 0 and 1
\* elsewhere: same rows, same labels, same values in every column of t
RainIndicatorOf(t, out) ==
    /\ out.columns = Append(t.columns, "did_it_rain")
    /\ NRows(out) = NRows(t)
    /\ \A i \in 1..NRows(t) :
          /\ out.rows[i].label = t.rows[i].label
          /\ DOMAIN out.rows[i].cells = DOMAIN t.rows[i].cells \cup {"did_it_rain"}
          /\ \A c \in DOMAIN t.rows[i].cells :
                out.rows[i].cells[c] = t.rows[i].cells[c]
          /\ out.rows[i].cells["did_it_rain"] =
                IF t.rows[i].cells["rain"] = IntV(0) THEN IntV(0) ELSE IntV(1)

\* C12: the derived rain indicator.  For the frame a call of add_did_it_rain
\* is about to receive, and for the two calls the notebook has made, a frame
\* without missing rain comes back with the column did_it_rain added, 0 in the
\* rows whose rain is 0 and 1 in all others, every other column and every row
\* as it was.
DerivedRainIndicator ==
    /\ pc = "rain_train" /\ NoMissingRain(heap[df_train]) =>
          RainIndicatorOf(heap[df_train], add_did_it_rain(heap[df_train]))
    /\ pc = "rain_test" /\ NoMissingRain(heap[df_test]) =>
          RainIndicatorOf(heap[df_test], add_did_it_rain(heap[df_test]))
    /\ call.op = "add_did_it_rain" /\ NoMissingRain(call.before) =>
          RainIndicatorOf(call.before, heap[call.ret])

\* a call on a frame with a dry row and a row with rain other than 1
DerivedRainIndicatorWitness ==
    /\ call.op = "add_did_it_rain"
    /\ NoMissingRain(call.before)
    /\ \E r \in RowSet(heap[call.ret]) :
          r.cells["rain"] = IntV(0) /\ r.cells["did_it_rain"] = IntV(0)
    /\ \E r \in RowSet(heap[call.ret]) :
          r.cells["rain"] = IntV(2) /\ r.cells["did_it_rain"] = IntV(1)

---------------------------------------------------------------------------
(* C13 *)

\* every matrix m was given, for fit, predict or score, has the columns of
\* the matrix it was fitted on, in the same order
SameSchema(m) ==
    \A i \in 1..Len(m.calls) : heap[m.calls[i].X].columns = m.cols

\* the columns that are the features: those of the frame read, without day,
\* month and area, then the month indicators, then did_it_rain
IsFeatureSchema(cols) ==
    /\ Len(cols) >= 5
    /\ SubSeq(cols, 1, 4) = <<"FFMC", "DC", "temp", "rain">>
    /\ cols[Len(cols)] = "did_it_rain"
    /\ \A j \in 5..(Len(cols) - 1) : cols[j] \in Range(MonthColumns)

\* C13: train/test schema agreement.  The month is encoded before the split
\* and both parts go through the same steps, so X_test has the column names
\* of X_train in the same order, and every matrix passed to predict or score
\* of the linear model and of the final forest has the columns, in order,
\* that the fit of that object saw - also when a month occurs in test rows
\* only.
SchemaAgreement ==
    /\ SameSchema(model) /\ SameSchema(rf_final_model)
    /\ Done("linear_fit") => IsFeatureSchema(model.cols)
    /\ Done("xy_test") =>
          /\ heap[X_test].columns = heap[X_train].columns
          /\ \A i \in 1..NRows(heap[X_test]) :
                DOMAIN heap[X_test].rows[i].cells = Range(heap[X_train].columns)
    /\ predictions.by = "model" => predictions.cols = model.cols
    /\ predictions.by = "rf_final_model" => predictions.cols = rf_final_model.cols
    /\ score.by = "model" => score.cols = model.cols
    /\ score.by = "rf_final_model" => score.cols = rf_final_model.cols

\* the final forest has predicted for a test matrix with a month that no
\* training row has
SchemaAgreementWitness ==
    /\ pc = "done"
    /\ predictions.by = "rf_final_model"
    /\ \E c \in Range(heap[X_test].columns) \cap Range(MonthColumns) :
          /\ \E r \in RowSet(heap[X_test]) : r.cells[c] = IntV(1)
          /\ \A r \in RowSet(heap[X_train]) : r.cells[c] = IntV(0)


===========================================================================
